---- MODULE Spec2Model ----
(***************************************************************************)
(* ASM92, the COSC 3P92 two-pass assembler (src/asm92.cpp).                *)
(*                                                                         *)
(* A source line is a sequence of ASCII codes, a source program a sequence *)
(* of lines.  main() calls parse() twice over the same program: once with  *)
(* write = false (labels and directives), once with write = true (bytes    *)
(* are written).  Each action below is one iteration of parse()'s          *)
(* while (getline(in, line)) loop, selected by the kind of the line.       *)
(***************************************************************************)
EXTENDS Integers, Sequences, FiniteSets, TLC

(***************************************************************************)
(* Characters.                                                             *)
(***************************************************************************)
\* The printable ASCII characters, in code order from 32 (space); the double
\* quote (34), the backslash (92) and the back quote (96) are written as words.
Printable ==
  << " ", "!", "dquote", "#", "$", "%", "&", "'", "(", ")", "*", "+", ",", "-", ".", "/",
     "0", "1", "2", "3", "4", "5", "6", "7", "8", "9", ":", ";", "<", "=", ">", "?",
     "@", "A", "B", "C", "D", "E", "F", "G", "H", "I", "J", "K", "L", "M", "N", "O",
     "P", "Q", "R", "S", "T", "U", "V", "W", "X", "Y", "Z", "[", "bslash", "]", "^", "_",
     "bquote", "a", "b", "c", "d", "e", "f", "g", "h", "i", "j", "k", "l", "m", "n", "o",
     "p", "q", "r", "s", "t", "u", "v", "w", "x", "y", "z", "{", "|", "}", "~" >>

\* ASCII code of a one-character string.
Ord(ch) == 31 + (CHOOSE k \in 1..Len(Printable) : Printable[k] = ch)

\* A line given as a tuple of one-character strings, as its ASCII codes.
Text(chars) == [k \in 1..Len(chars) |-> Ord(chars[k])]

SP     == 32   \* ' '
HASH   == 35   \* '#'
DOLLAR == 36   \* '$'
COMMA  == 44   \* ','
COLON  == 58   \* ':'
EQUALS == 61   \* '='
AT     == 64   \* '@'

\* toupper() in the "C" locale.
ToUpper(c) == IF c \in 97..122 THEN c - 32 ELSE c

Upper(s) == [k \in 1..Len(s) |-> ToUpper(s[k])]

\* (c >= 48 && c <= 57) || (c >= 65 && c <= 70), on an upper-cased c.
IsHexDigit(c) == (c >= 48 /\ c <= 57) \/ (c >= 65 /\ c <= 70)

\* val = c - 48; if (c > 64) val = c - 55;   (val & 0x0F), val an unsigned char.
Nibble(c) == (IF c > 64 THEN c - 55 ELSE c - 48) % 16

\* x <<= 4; x |= (val & 0x0F);  on an unsigned char x.
ShiftIn(x, c) == ((x * 16) % 256) + Nibble(c)

\* Conversion of an int to unsigned char.
Byte(n) == n % 256

\* (signed char) of an unsigned char.
SignedChar(b) == IF b >= 128 THEN b - 256 ELSE b

(***************************************************************************)
(* trim() of strim.h: strips the characters "\t\n\v\f\r " from both ends.  *)
(***************************************************************************)
IsBlankChar(c) == c \in {9, 10, 11, 12, 13, 32}

RECURSIVE LTrim(_)
LTrim(s) == IF s # <<>> /\ IsBlankChar(Head(s)) THEN LTrim(Tail(s)) ELSE s

RECURSIVE RTrim(_)
RTrim(s) ==
  IF s # <<>> /\ IsBlankChar(s[Len(s)]) THEN RTrim(SubSeq(s, 1, Len(s) - 1)) ELSE s

Trim(s) == LTrim(RTrim(s))

(***************************************************************************)
(* Instruction map (imap) and mapping.conf loading.                        *)
(***************************************************************************)
\* #define ALU_CARRY_ADJUST 2
ALU_CARRY_ADJUST == 2

\* The built-in imap: {instruction code, MPC address}.
imap0 ==
  (1212961792 :> 3)      \* {0x484C5400, 0x03}  HLT
  @@ (1297045025 :> 4)   \* {0x4D4F5621, 0x04}  MOV A, X
  @@ (1094992929 :> 11)  \* {0x41444421, 0x0B}  ADD A, X
  @@ (1246580752 :> 80)  \* {0x4A4D5010, 0x50}  JMP X
  @@ (1112670224 :> 128) \* {0x42520010, 0x80}  BR X

\* const std::set<std::string> jmpcodes: JMP, JSR, BR, BRZ, BRN.
jmpcodes ==
  { Text(<<"J","M","P">>), Text(<<"J","S","R">>), Text(<<"B","R">>),
    Text(<<"B","R","Z">>), Text(<<"B","R","N">>) }

\* A character the '.' of an ECMAScript std::regex does not match.
IsLineTerminator(c) == c \in {10, 13}

\* Where std::regex_search ends the match of "^.*<ch>" in s, 0 when there is
\* no match: the greatest index of ch with no line terminator before it
\* ('^' anchors the match at the start of s, '.*' is greedy).
MatchEnd(s, ch) ==
  LET ends == { k \in 1..Len(s) :
                  s[k] = ch /\ \A j \in 1..(k-1) : ~IsLineTerminator(s[j]) }
  IN  IF ends = {} THEN 0 ELSE CHOOSE k \in ends : \A j \in ends : j <= k

\* Index of the first space of s at or after position 1, Len(s)+1 when none.
FirstSpace(s) ==
  IF \E k \in 1..Len(s) : s[k] = SP
  THEN CHOOSE k \in 1..Len(s) : s[k] = SP /\ \A j \in 1..(k-1) : s[j] # SP
  ELSE Len(s) + 1

\* "read mnemonic": the characters up to the first space, upper-cased.  The
\* branch "else if (c == '#')" is never taken (c is a space there), so a '#'
\* joins the mnemonic like any other character.
ReadMnemonic(line) == Upper(SubSeq(line, 1, FirstSpace(line) - 1))

\* Index of the first character after the mnemonic and the space ending it.
AfterMnemonic(line) == FirstSpace(line) + 1

\* "construct instruction code": the mnemonic's characters in the three high
\* bytes, (optype[0] << 4) | (optype[1] & 0x0F) in the low byte.
ICode(mnemonic, optype) ==
  (IF Len(mnemonic) >= 1 THEN mnemonic[1] * 16777216 ELSE 0)
  + (IF Len(mnemonic) >= 2 THEN mnemonic[2] * 65536 ELSE 0)
  + (IF Len(mnemonic) >= 3 THEN mnemonic[3] * 256 ELSE 0)
  + optype[1] * 16 + (optype[2] % 16)

\* OperandChar rejecting what it cannot read.
OperandCharStrict(st, c) ==
  IF c = SP THEN st
  ELSE IF c = HASH THEN [st EXCEPT !.comment = TRUE]
  ELSE IF c = DOLLAR THEN [st EXCEPT !.optype[st.numops + 1] = 2]
  ELSE IF c = COMMA THEN
    IF st.numops = 0 THEN [st EXCEPT !.numops = 1] ELSE [st EXCEPT !.err = TRUE]
  ELSE IF IsHexDigit(c) THEN
    [st EXCEPT !.ops[st.numops + 1] = ShiftIn(st.ops[st.numops + 1], c),
               !.optype[st.numops + 1] =
                  IF st.optype[st.numops + 1] = 0 THEN 1 ELSE st.optype[st.numops + 1]]
  ELSE [st EXCEPT !.err = TRUE]

\* The "read operands" loop, one character c (upper-cased) at a time.  st is
\* [numops, ops, optype, comment, err]; ops and optype are indexed from 1.
OperandChar(st, c) ==
  IF c = SP THEN st
  ELSE IF c = HASH THEN [st EXCEPT !.comment = TRUE]
  ELSE IF c = DOLLAR THEN [st EXCEPT !.optype[st.numops + 1] = 2]
  ELSE IF c = COMMA THEN
    IF st.numops = 0 THEN [st EXCEPT !.numops = 1]
    ELSE [st EXCEPT !.err = TRUE]       \* "Leading comma in instruction"
  ELSE IF IsHexDigit(c) THEN
    [st EXCEPT !.ops[st.numops + 1] = ShiftIn(st.ops[st.numops + 1], c),
               !.optype[st.numops + 1] =
                  IF st.optype[st.numops + 1] = 0 THEN 1 ELSE st.optype[st.numops + 1]]
  ELSE st                               \* any other character: no branch taken

RECURSIVE ReadOperands(_, _, _)
ReadOperands(line, i, st) ==
  IF i > Len(line) \/ st.comment \/ st.err THEN st
  ELSE ReadOperands(line, i + 1, OperandChar(st, ToUpper(line[i])))

\* if (optype[1] != 0) numops = 2; else if (optype[0] != 0) numops = 1;
FinalNumops(st) ==
  IF st.optype[2] # 0 THEN 2 ELSE IF st.optype[1] # 0 THEN 1 ELSE st.numops

\* The jump/branch operand scan: every character up to a '#' joins the label
\* text and is shifted into ops[0] as if it were a hex digit.
RECURSIVE JumpScan(_, _, _)
JumpScan(line, i, js) ==
  IF i > Len(line) \/ js.comment THEN js
  ELSE IF line[i] = HASH THEN JumpScan(line, i + 1, [js EXCEPT !.comment = TRUE])
  ELSE JumpScan(line, i + 1,
                [js EXCEPT !.lbl = Append(js.lbl, line[i]),
                           !.ops0 = ShiftIn(js.ops0, ToUpper(line[i]))])

\* BranchOffset with the direction test reversed.
BranchOffsetReversed(target, caddr) ==
  IF target >= caddr
  THEN Byte(SignedChar(target) - (caddr + ALU_CARRY_ADJUST))
  ELSE Byte(SignedChar(target) - (caddr + 1))

\* BranchOffset without the carry adjustment of a back branch.
BranchOffsetNoCarry(target, caddr) == Byte(SignedChar(target) - (caddr + 1))

\* The relative offset stored for a branch to a label at address target.
BranchOffset(target, caddr) ==
  IF target < caddr
  THEN Byte(SignedChar(target) - (caddr + ALU_CARRY_ADJUST))   \* back branch
  ELSE Byte(SignedChar(target) - (caddr + 1))                  \* forward branch

\* "handle jump/br instructions" (second pass only): the operand of a
\* jump/branch mnemonic, as [err, ops0].
JumpOperand(line, mnemonic, caddr, lblmap, base_addr) ==
  LET js  == JumpScan(line, AfterMnemonic(line), [lbl |-> <<>>, ops0 |-> 0, comment |-> FALSE])
      lbl == Trim(js.lbl)
      lit == Byte(js.ops0 + base_addr)    \* ops[0] += directives["base_addr"]
  IN  IF lbl \in DOMAIN lblmap
      THEN [err |-> FALSE, comment |-> js.comment,
            ops0 |-> IF mnemonic[1] = 66
                     THEN BranchOffset(lblmap[lbl], caddr) ELSE lblmap[lbl]]
      ELSE IF Len(lbl) > 2
      THEN [err |-> TRUE, comment |-> js.comment, ops0 |-> lit]
      ELSE [err |-> FALSE, comment |-> js.comment, ops0 |-> lit]

\* One instruction line, from "if not label, then must be instruction" to
\* the imap lookup: [err, mnemonic, numops, ops, optype, icode].  err is
\* "none" or the kind of the diagnostic.
Instruction(line, write, caddr, lblmap, base_addr, imap) ==
  LET mnemonic == ReadMnemonic(line)
      isJump   == write /\ mnemonic \in jmpcodes
      jo       == JumpOperand(line, mnemonic, caddr, lblmap, base_addr)
      st0      == IF isJump
                  THEN [numops |-> 1, ops |-> <<jo.ops0, 0>>, optype |-> <<1, 0>>,
                        comment |-> jo.comment, err |-> FALSE]
                  ELSE [numops |-> 0, ops |-> <<0, 0>>, optype |-> <<0, 0>>,
                        comment |-> FALSE, err |-> FALSE]
      \* after the jump scan i is at the end of the line or the comment was met
      st       == IF isJump THEN st0 ELSE ReadOperands(line, AfterMnemonic(line), st0)
      numops   == FinalNumops(st)
      icode    == ICode(mnemonic, st.optype)
      err      == IF isJump /\ jo.err THEN "operand"
                  ELSE IF st.err THEN "comma"
                  ELSE IF Len(mnemonic) > 3 THEN "mnemonic"
                  ELSE IF icode \notin DOMAIN imap THEN "unmapped"
                  ELSE "none"
  IN  [err |-> err, mnemonic |-> mnemonic, numops |-> numops, ops |-> st.ops,
       optype |-> st.optype, icode |-> icode]

\* The bytes of an instruction: mpc, then ops[0..numops-1].
Encoding(imap, ins) == <<imap[ins.icode]>> \o SubSeq(ins.ops, 1, ins.numops)

(***************************************************************************)
(* Assembler directives.                                                   *)
(***************************************************************************)
\* The one directive name of std::unordered_map directives.
base_addr == Text(<<"b","a","s","e","_","a","d","d","r">>)

\* The directive value loop: spaces skipped, '#' ends the value, a hex digit
\* is shifted into mpc, anything else is "Invalid hex value".  mpc is NOT
\* reset before the loop: it starts from whatever the variable holds.
RECURSIVE DirectiveValue(_, _, _)
DirectiveValue(value, i, acc) ==
  IF i > Len(value) \/ acc.err THEN acc
  ELSE LET c == ToUpper(value[i])
       IN  IF c = SP THEN DirectiveValue(value, i + 1, acc)
           ELSE IF c = HASH THEN acc
           ELSE IF IsHexDigit(c)
           THEN DirectiveValue(value, i + 1, [acc EXCEPT !.mpc = ShiftIn(acc.mpc, c)])
           ELSE [acc EXCEPT !.err = TRUE]

\* "match assembler directive" on the first pass: [err, name, mpc].  The
\* greedy regex "^.*=" splits the line at the end of its match.
Directive(line, directives, mpcIn) ==
  LET p     == MatchEnd(line, EQUALS)
      name  == Trim(SubSeq(line, 2, p - 1))
      value == Trim(SubSeq(line, p + 1, Len(line)))
      acc   == DirectiveValue(value, 1, [err |-> FALSE, mpc |-> mpcIn])
  IN  IF p = 0 THEN [err |-> "assignment", name |-> <<>>, mpc |-> mpcIn]
      ELSE IF name \notin DOMAIN directives
      THEN [err |-> "directive", name |-> name, mpc |-> mpcIn]
      ELSE IF acc.err THEN [err |-> "hex", name |-> name, mpc |-> acc.mpc]
      ELSE [err |-> "none", name |-> name, mpc |-> acc.mpc]

(***************************************************************************)
(* load(): every line "MNEMONIC operands : MPC" of mapping.conf adds or    *)
(* replaces an imap entry; blank lines and lines starting with '#' are     *)
(* skipped.  Operand patterns: A or B is a direct address (2), X an        *)
(* immediate (1).  The result is [exit, imap]: exit is TRUE when load()    *)
(* ended the program with exit(EXIT_FAILURE).                              *)
(***************************************************************************)
\* The "read operands" loop of load(): st is [numops, optype, err, closed].
\* A second comma ends the program (err); any other character that is no
\* space, comma, A, B or X closes conf and the loop goes on.
RECURSIVE LoadOperands(_, _, _)
LoadOperands(instr, i, st) ==
  IF i > Len(instr) \/ st.err THEN st
  ELSE LET c == ToUpper(instr[i])
       IN  IF c = SP THEN LoadOperands(instr, i + 1, st)
           ELSE IF c = COMMA
           THEN IF st.numops = 0
                THEN LoadOperands(instr, i + 1, [st EXCEPT !.numops = 1])
                ELSE [st EXCEPT !.err = TRUE]
           ELSE IF c = Ord("A") \/ c = Ord("B")
           THEN LoadOperands(instr, i + 1, [st EXCEPT !.optype[st.numops + 1] = 2])
           ELSE IF c = Ord("X")
           THEN LoadOperands(instr, i + 1, [st EXCEPT !.optype[st.numops + 1] = 1])
           ELSE LoadOperands(instr, i + 1, [st EXCEPT !.closed = TRUE])

\* "read MPC address": acc is [mpc, err]; a character that is no hex digit
\* ends the program.
RECURSIVE HexValue(_, _, _)
HexValue(map, i, acc) ==
  IF i > Len(map) \/ acc.err THEN acc
  ELSE LET c == ToUpper(map[i])
       IN  IF IsHexDigit(c)
           THEN HexValue(map, i + 1, [acc EXCEPT !.mpc = ShiftIn(acc.mpc, c)])
           ELSE [acc EXCEPT !.err = TRUE]

RECURSIVE load(_, _)
load(imap, conf) ==
  IF conf = <<>> THEN [exit |-> FALSE, imap |-> imap]
  ELSE LET line  == Trim(Head(conf))
           p     == MatchEnd(line, COLON)
           instr == Trim(SubSeq(line, 1, p - 1))
           map   == Trim(SubSeq(line, p + 1, Len(line)))
           st    == LoadOperands(instr, AfterMnemonic(instr),
                                 [numops |-> 0, optype |-> <<0, 0>>,
                                  err |-> FALSE, closed |-> FALSE])
           icode == ICode(ReadMnemonic(instr), st.optype)
           hv    == HexValue(map, 1, [mpc |-> 0, err |-> FALSE])
       IN  IF line = <<>> \/ line[1] = HASH THEN load(imap, Tail(conf))
           ELSE IF p = 0 THEN [exit |-> TRUE, imap |-> imap]       \* "Invalid format"
           ELSE IF st.err THEN [exit |-> TRUE, imap |-> imap]      \* "Leading comma"
           ELSE IF Len(ReadMnemonic(instr)) > 3
           THEN [exit |-> TRUE, imap |-> imap]                     \* "Invalid Mnemonic"
           ELSE IF hv.err THEN [exit |-> TRUE, imap |-> imap]      \* "Invalid MPC address"
           ELSE IF st.closed                  \* conf was closed: getline finds no more
           THEN [exit |-> FALSE, imap |-> (icode :> hv.mpc) @@ imap]
           ELSE load((icode :> hv.mpc) @@ imap, Tail(conf))

(***************************************************************************)
(* Source programs.                                                        *)
(***************************************************************************)
MaxLines == 3     \* longest program drawn from a line pool
MaxPad   == 2     \* most one-byte instructions before the label of a branch program
MaxFill  == 7     \* most three-byte instructions between label and branch

LineHLT      == Text(<<"H","L","T">>)
LineADD      == Text(<<"A","D","D"," ","$","0","4",","," ","5">>)
LineMOVG     == Text(<<"m","o","v"," ","$","0","4",","," ","3","G">>)
LineMOVdir   == Text(<<"M","O","V"," ","$","0","4">>)
LineHLTComma == Text(<<"H","L","T"," ",",">>)
LineADDCommas == Text(<<"A","D","D"," ","1",",",",","2">>)
LineNOP      == Text(<<"N","O","P">>)
LineLblAB    == Text(<<"a","b",":">>)
LineLblLoop  == Text(<<"l","o","o","p",":">>)
LineJMPab    == Text(<<"J","M","P"," ","a","b">>)
LineJSRab    == Text(<<"J","S","R"," ","a","b">>)
LineJMPloop  == Text(<<"J","M","P"," ","l","o","o","p">>)
LineBRab     == Text(<<"B","R"," ","a","b">>)
LineBRZab    == Text(<<"b","r","z"," ","a","b">>)
LineBRFC     == Text(<<"B","R"," ","F","C">>)
LineJMP1F    == Text(<<"J","M","P"," ","1","F">>)
LineJMPG1    == Text(<<"J","M","P"," ","G","1">>)
LineJMP123   == Text(<<"J","M","P"," ","1","2","3">>)
LineBase00   == Text(<<"@","b","a","s","e","_","a","d","d","r","=","0","0">>)
LineBase1F   == Text(<<"@","b","a","s","e","_","a","d","d","r","=","1","F">>)
LineBase5    == Text(<<"@","b","a","s","e","_","a","d","d","r","=","5">>)
LineBaseFF   == Text(<<"@","b","a","s","e","_","a","d","d","r","=","f","f">>)
LineHLTc     == Text(<<"H","L","T"," ","#","c">>)
LineHLTHash  == Text(<<"H","L","T","#","c">>)
LineHLTColon == Text(<<"H","L","T"," ","#"," ","a",":","b">>)
LineADDc     == Text(<<"A","D","D"," ","$","0","4",","," ","5"," ","#"," ","c">>)
LineJMP1Fc   == Text(<<"J","M","P"," ","1","F"," ","#","c">>)
LineJMPabc   == Text(<<"J","M","P"," ","a","b"," ","#","c">>)
LineBlank    == Text(<<" "," ">>)
LineComment  == Text(<<"#"," ","c">>)

\* Labels, directives, instructions of every width, relative branches.
LinePool ==
  { LineHLT, LineADD, LineNOP, LineLblAB, LineJMPab, LineBRab, LineBRZab,
    LineBase1F, LineBaseFF, LineBlank, LineComment }

\* Jumps and branches to labels and to literals.
JumpPool ==
  { LineHLT, LineLblAB, LineLblLoop, LineJMPab, LineJSRab, LineJMPloop, LineBRFC,
    LineJMP1F, LineJMPG1, LineJMP123, LineBase1F, LineBlank, LineComment }

\* Ordinary instructions and their operand lists.
OperandPool ==
  { LineHLT, LineADD, LineMOVG, LineMOVdir, LineHLTComma, LineADDCommas, LineNOP,
    LineLblAB, LineJMP1F, LineBase1F, LineBlank, LineComment }

\* base_addr directives of one and two digits, before and after labels and
\* instructions.
DirectivePool ==
  { LineHLT, LineLblAB, LineJMPab, LineBase1F, LineBase5, LineBaseFF, LineBlank,
    LineComment }

\* Instructions followed by an inline comment.
CommentPool ==
  { LineHLT, LineHLTc, LineHLTHash, LineHLTColon, LineADDc, LineJMP1F, LineJMP1Fc,
    LineJMPabc, LineLblAB, LineBase1F, LineBlank, LineComment }

\* Every program of at most MaxLines lines of a pool.
ProgramsOf(pool) == UNION { [1..n -> pool] : n \in 0..MaxLines }

\* n copies of a line.
Repeat(l, n) == [k \in 1..n |-> l]

\* A label after up to MaxPad one-byte instructions, then up to MaxFill
\* three-byte instructions, then a branch to the label.
BranchPrograms ==
  { head \o Repeat(LineHLT, a) \o <<LineLblAB>> \o Repeat(LineADD, b) \o tail :
      head \in {<<>>, <<LineBlank>>, <<LineComment>>, <<LineBase00>>, <<LineBase1F>>},
      a \in 0..MaxPad, b \in 0..MaxFill,
      tail \in {<<LineBRab>>, <<LineHLT, LineBRab>>, <<LineBRab, LineNOP>>} }

\* A mapping.conf adding the jump/branch instructions the built-in imap lacks.
MappingConf ==
  << Text(<<"#"," ","j","u","m","p","s">>),
     Text(<<"J","S","R"," ","X"," ",":"," ","6","0">>),
     <<>>,
     Text(<<"B","R","Z"," ","X"," ",":"," ","8","1">>),
     Text(<<"B","R","N"," ","X"," ",":"," ","8","2">>) >>

\* What main() can hand to parse(): the built-in imap when there is no
\* mapping.conf, the result of load() when there is one.
Loaded == { [exit |-> FALSE, imap |-> imap0], load(imap0, MappingConf) }

\* What an uninitialised unsigned char may hold: any byte.  NoValue marks a
\* local variable that has not been assigned yet.
NoValue == 0 - 1
Indeterminate == 0..255

(***************************************************************************)
(* State.                                                                  *)
(***************************************************************************)
VARIABLES
  src,         \* the lines of the input file
  imap,        \* the instruction map after the optional load()
  write,       \* parse()'s write argument: FALSE on the first pass
  status,      \* "running", "success" (main returns 0), "failure" (exit)
  pos,         \* lines already taken from the stream by getline
  linenum,     \* parse()'s linenum
  caddr,       \* address of the current assembled instruction / operand
  mpc,         \* parse()'s mpc
  lblmap,      \* label -> address
  directives,  \* directive name -> value
  adjustBase,  \* a base_addr directive was met on the first pass
  out,         \* bytes written to the output file
  outfile,     \* the output file exists
  reported,    \* the byte count of the closing message, NoValue before it
  offsetlog,   \* per line, the value printed as "Address Offset" (0: none)
  errline      \* the line number of the diagnostic, 0 when none was given

vars == << src, imap, write, status, pos, linenum, caddr, mpc, lblmap, directives,
           adjustBase, out, outfile, reported, offsetlog, errline >>

\* State after main() has opened both files and loaded the mapping, at the
\* first call of parse(); when load() has ended the program, parse() is never
\* called and the empty output file stays.
Start ==
  /\ \E l \in Loaded :
       /\ imap = l.imap
       /\ status = IF l.exit THEN "failure" ELSE "running"
  /\ write = FALSE
  /\ pos = 0
  /\ linenum = 1
  /\ caddr = 0
  /\ mpc = NoValue
  /\ lblmap = <<>>
  /\ directives = (base_addr :> 0)
  /\ adjustBase = FALSE
  /\ out = <<>>
  /\ outfile = TRUE
  /\ reported = NoValue
  /\ offsetlog = [k \in 1..Len(src) |-> 0]
  /\ errline = 0

Init == src \in ProgramsOf(LinePool) /\ Start
InitJumps == src \in ProgramsOf(JumpPool) /\ Start
InitOperands == src \in ProgramsOf(OperandPool) /\ Start
InitBranch == src \in BranchPrograms /\ Start
InitComments == src \in ProgramsOf(CommentPool) /\ Start
InitDirectives == src \in ProgramsOf(DirectivePool) /\ Start

\* The line getline delivers next, trimmed.
MoreLines == status = "running" /\ pos < Len(src)
line == Trim(src[pos + 1])

IsBlank(l)     == l = <<>>
IsComment(l)   == l # <<>> /\ l[1] = HASH
IsDirective(l) == l # <<>> /\ l[1] = AT
IsLabel(l)     == ~IsBlank(l) /\ ~IsComment(l) /\ ~IsDirective(l) /\ MatchEnd(l, COLON) > 0
IsInstruction(l) ==
  ~IsBlank(l) /\ ~IsComment(l) /\ ~IsDirective(l) /\ MatchEnd(l, COLON) = 0

\* err leaving the output file behind.
errKeepsOutput ==
  /\ status' = "failure"
  /\ errline' = linenum
  /\ UNCHANGED << src, imap, write, pos, linenum, caddr, mpc, lblmap, directives,
                  adjustBase, out, outfile, reported, offsetlog >>

\* The err: label of parse(): close both files, remove the output, exit.
err ==
  /\ status' = "failure"
  /\ outfile' = FALSE
  /\ out' = <<>>
  /\ errline' = linenum
  /\ UNCHANGED << src, imap, write, pos, linenum, caddr, mpc, lblmap, directives,
                  adjustBase, reported, offsetlog >>

\* if (line == "") { linenum++; continue; }
BlankLine ==
  /\ MoreLines /\ IsBlank(line)
  /\ pos' = pos + 1
  /\ linenum' = linenum + 1
  /\ UNCHANGED << src, imap, write, status, caddr, mpc, lblmap, directives,
                  adjustBase, out, outfile, reported, offsetlog, errline >>

\* if (line[0] == '#') { linenum++; continue; }
CommentLine ==
  /\ MoreLines /\ IsComment(line)
  /\ pos' = pos + 1
  /\ linenum' = linenum + 1
  /\ UNCHANGED << src, imap, write, status, caddr, mpc, lblmap, directives,
                  adjustBase, out, outfile, reported, offsetlog, errline >>

\* if (line[0] == '@'): processed on the first pass, skipped on the second;
\* linenum is not advanced on either.
DirectiveLine ==
  /\ MoreLines /\ IsDirective(line)
  /\ IF write
     THEN /\ pos' = pos + 1
          /\ UNCHANGED << src, imap, write, status, linenum, caddr, mpc, lblmap,
                          directives, adjustBase, out, outfile, reported, offsetlog, errline >>
     ELSE \E d \in { Directive(line, directives, held) :
                        held \in (IF mpc = NoValue THEN Indeterminate ELSE {mpc}) } :
                IF d.err # "none" THEN err
                ELSE /\ pos' = pos + 1
                     /\ mpc' = d.mpc
                     /\ directives' = [directives EXCEPT ![d.name] = d.mpc]
                     /\ caddr' = IF d.name = base_addr THEN caddr + d.mpc ELSE caddr
                     /\ adjustBase' = IF d.name = base_addr THEN TRUE ELSE adjustBase
                     /\ offsetlog' = IF d.name = base_addr
                                     THEN [offsetlog EXCEPT ![pos + 1] = d.mpc]
                                     ELSE offsetlog
                     /\ UNCHANGED << src, imap, write, status, linenum, lblmap, out,
                                     outfile, reported, errline >>

\* The label text of a label line: the match of "^.*:" without its colon.
LabelOf(l) == SubSeq(l, 1, MatchEnd(l, COLON) - 1)

\* "match label": recorded on the first pass, skipped on the second.
LabelLine ==
  /\ MoreLines /\ IsLabel(line)
  /\ pos' = pos + 1
  /\ linenum' = linenum + 1
  /\ lblmap' = IF write THEN lblmap ELSE (LabelOf(line) :> Byte(caddr)) @@ lblmap
  /\ UNCHANGED << src, imap, write, status, caddr, mpc, directives, adjustBase, out,
                  outfile, reported, offsetlog, errline >>

\* An instruction line: parsed on both passes, written on the second.
InstructionLine ==
  /\ MoreLines /\ IsInstruction(line)
  /\ LET ins == Instruction(line, write, caddr, lblmap, directives[base_addr], imap)
     IN  IF ins.err # "none" THEN err
         ELSE /\ pos' = pos + 1
              /\ linenum' = linenum + 1
              /\ mpc' = imap[ins.icode]
              /\ out' = IF write THEN out \o Encoding(imap, ins) ELSE out
              /\ caddr' = caddr + 1 + ins.numops
              /\ UNCHANGED << src, imap, write, status, lblmap, directives, adjustBase,
                              outfile, reported, offsetlog, errline >>

\* The first parse() returns at end of input; main rewinds the input and
\* calls parse() again with write = true, whose locals start afresh.
SecondPass ==
  /\ status = "running" /\ ~write /\ pos = Len(src)
  /\ write' = TRUE
  /\ pos' = 0
  /\ linenum' = 1
  /\ mpc' = NoValue
  /\ caddr' = IF adjustBase THEN directives[base_addr] ELSE 0
  /\ adjustBase' = FALSE
  /\ UNCHANGED << src, imap, status, lblmap, directives, out, outfile, reported,
                  offsetlog, errline >>

\* The second parse() returns at end of input: the closing message, and
\* main returns 0.
Finish ==
  /\ status = "running" /\ write /\ pos = Len(src)
  /\ reported' = caddr - directives[base_addr]
  /\ status' = "success"
  /\ UNCHANGED << src, imap, write, pos, linenum, caddr, mpc, lblmap, directives,
                  adjustBase, out, outfile, offsetlog, errline >>

Next ==
  \/ BlankLine
  \/ CommentLine
  \/ DirectiveLine
  \/ LabelLine
  \/ InstructionLine
  \/ SecondPass
  \/ Finish

Spec == Init /\ [][Next]_vars
SpecJumps == InitJumps /\ [][Next]_vars
SpecOperands == InitOperands /\ [][Next]_vars
SpecBranch == InitBranch /\ [][Next]_vars
SpecComments == InitComments /\ [][Next]_vars
SpecDirectives == InitDirectives /\ [][Next]_vars

(***************************************************************************)
(* Vocabulary of the properties.                                           *)
(***************************************************************************)
RECURSIVE SumTo(_, _)
SumTo(f, n) == IF n = 0 THEN 0 ELSE f[n] + SumTo(f, n - 1)

\* The first pass has run to the end of the input.
Pass1Done == write \/ (status = "running" /\ pos = Len(src))

\* Line k of the source is a label line / an instruction line.
LabelAt(k) == IsLabel(Trim(src[k]))
InstructionAt(k) == IsInstruction(Trim(src[k]))
NameAt(k) == LabelOf(Trim(src[k]))

\* No later line defines the label of line k again.
LastDefinition(k) == \A j \in (k+1)..Len(src) : LabelAt(j) => NameAt(j) # NameAt(k)

\* Bytes of line k: one opcode byte plus one byte per operand for an
\* instruction line, none for any other line.
Width(k) ==
  IF InstructionAt(k)
  THEN 1 + Instruction(Trim(src[k]), FALSE, 0, <<>>, 0, imap).numops
  ELSE 0

\* Bytes of the instruction lines strictly before line k.
WidthBefore(k) == SumTo([j \in 1..Len(src) |-> Width(j)], k - 1)

\* Sum of the offsets the base_addr directives strictly before line k applied.
OffsetBefore(k) == SumTo(offsetlog, k - 1)

\* The operand field of an instruction line: what follows the mnemonic, up
\* to a '#'.
OperandField(l) ==
  LET from == AfterMnemonic(l)
      upto == IF \E i \in from..Len(l) : l[i] = HASH
              THEN (CHOOSE i \in from..Len(l) :
                      l[i] = HASH /\ \A j \in from..(i-1) : l[j] # HASH) - 1
              ELSE Len(l)
  IN  SubSeq(l, from, upto)

\* A hex literal of one or two digits, and its value.
IsHexLiteral(t) == Len(t) \in 1..2 /\ \A i \in 1..Len(t) : IsHexDigit(ToUpper(t[i]))
HexDigit(c) == IF ToUpper(c) >= 65 THEN ToUpper(c) - 55 ELSE ToUpper(c) - 48
LiteralValue(t) == IF Len(t) = 1 THEN HexDigit(t[1]) ELSE 16 * HexDigit(t[1]) + HexDigit(t[2])

\* The line about to be processed is a jump/branch instruction line.
AtJump == MoreLines /\ IsInstruction(line) /\ ReadMnemonic(line) \in jmpcodes
AtBranch == AtJump /\ ReadMnemonic(line)[1] = 66
JumpText == Trim(OperandField(line))
JumpKey == ICode(ReadMnemonic(line), <<1, 0>>)

(***************************************************************************)
(* C2, C3                                                                  *)
(***************************************************************************)
\* C2: on the second pass, a relative branch (BR, BRZ, BRN) whose operand
\* text is a known label emits, after its opcode byte, the two's-complement
\* byte of (label address as a signed byte) - (current + 2) when the label
\* address is below the current program address, and of
\* (label address as a signed byte) - (current + 1) otherwise.
C2_BranchOffset ==
  [][ (AtBranch /\ write /\ JumpText \in DOMAIN lblmap) =>
        LET target == lblmap[JumpText]
            offset == IF target < caddr
                      THEN SignedChar(target) - (caddr + 2)
                      ELSE SignedChar(target) - (caddr + 1)
        IN  /\ status' = "running"
            /\ out' = out \o <<imap[JumpKey], offset % 256>> ]_vars

\* A back branch has been emitted: the line just processed is a branch to a
\* label recorded below the branch's own address.
C2_Witness ==
  /\ write /\ status = "running" /\ pos >= 1
  /\ IsInstruction(Trim(src[pos]))
  /\ ReadMnemonic(Trim(src[pos])) \in jmpcodes
  /\ ReadMnemonic(Trim(src[pos]))[1] = 66
  /\ Trim(OperandField(Trim(src[pos]))) \in DOMAIN lblmap
  /\ LET target == lblmap[Trim(OperandField(Trim(src[pos])))]
     IN  /\ target < caddr - 2
         /\ out[Len(out)] = Byte(SignedChar(target) - caddr)

\* C3 (as stated): base address 0, label at 0x02, BR label at program
\* address 0x18: the operand byte emitted is 0xE9.
C3_ForwardE9 ==
  [][ (AtBranch /\ write /\ ReadMnemonic(line) = <<66, 82>> /\ directives[base_addr] = 0
       /\ JumpText \in DOMAIN lblmap /\ lblmap[JumpText] = 2 /\ caddr = 24) =>
        out' = out \o <<imap[JumpKey], 233>> ]_vars

\* C3 (amended): base address 0, label at 0x02, BR label at program address
\* 0x18: the label lies before the branch, so the back-branch rule applies
\* and the operand byte emitted is 0xE8, the two's complement of
\* 0x02 - (0x18 + 2).
C3_BackE8 ==
  [][ (AtBranch /\ write /\ ReadMnemonic(line) = <<66, 82>> /\ directives[base_addr] = 0
       /\ JumpText \in DOMAIN lblmap /\ lblmap[JumpText] = 2 /\ caddr = 24) =>
        out' = out \o <<imap[JumpKey], 232>> ]_vars

\* BR at 0x18 to the label at 0x02 has been emitted, base address 0.
C3_Witness ==
  /\ write /\ status = "running" /\ pos >= 1
  /\ Trim(src[pos]) = LineBRab
  /\ directives[base_addr] = 0
  /\ lblmap[<<97, 98>>] = 2
  /\ caddr = 26
  /\ Len(out) = 26 /\ out[25] = 128 /\ out[26] = 232

(***************************************************************************)
(* C4, C5, C9                                                              *)
(***************************************************************************)
\* The labels the source defines, on any line.
DefinedLabels == { NameAt(k) : k \in { j \in 1..Len(src) : LabelAt(j) } }

\* C4: for every label defined anywhere in the source, whatever characters
\* its name is made of, a JMP or JSR to it (with a mapped instruction code) is
\* assembled on both passes, and its operand byte on the second pass is the
\* address recorded for the label.
C4_JumpToAnyLabel ==
  [][ (AtJump /\ ReadMnemonic(line)[1] # 66 /\ JumpText \in DefinedLabels
       /\ JumpKey \in DOMAIN imap) =>
        /\ status' = "running"
        /\ write => out' = out \o <<imap[JumpKey], lblmap[JumpText]>> ]_vars

\* C5: a jump/branch whose operand text is no known label and is a hex
\* literal of at most 2 characters emits the value of that literal as its
\* operand byte, whatever base_addr holds.
C5_LiteralUnchanged ==
  [][ (AtJump /\ write /\ JumpText \notin DOMAIN lblmap /\ IsHexLiteral(JumpText)
       /\ status' = "running") =>
        out' = out \o <<imap[JumpKey], LiteralValue(JumpText)>> ]_vars

\* C9: a jump/branch whose operand text is neither a known label nor a hex
\* literal of at most 2 hex digits aborts the run, and nothing is emitted.
C9_BadOperandAborts ==
  [][ (AtJump /\ write /\ JumpText \notin DOMAIN lblmap /\ ~IsHexLiteral(JumpText)) =>
        (status' = "failure" /\ out' = <<>>) ]_vars

(***************************************************************************)
(* C6                                                                      *)
(***************************************************************************)
\* The text after the '=' of a directive line.
DirectiveText(l) == Trim(SubSeq(l, MatchEnd(l, EQUALS) + 1, Len(l)))

\* The first line is @base_addr=v, v of one or two hex digits, and no other
\* line is a directive.
BaseAddrOnTop ==
  /\ Len(src) >= 1
  /\ IsDirective(Trim(src[1]))
  /\ Trim(SubSeq(Trim(src[1]), 2, MatchEnd(Trim(src[1]), EQUALS) - 1)) = base_addr
  /\ IsHexLiteral(DirectiveText(Trim(src[1])))
  /\ \A k \in 2..Len(src) : ~IsDirective(Trim(src[k]))

\* C6: with @base_addr=v as the first line, every label address recorded on
\* the first pass and the program address of every instruction of the second
\* pass is larger by v than without the directive (where they are the bytes
\* of the instruction lines before), and the byte count reported equals the
\* number of bytes written.
C6_ShiftByV ==
  BaseAddrOnTop =>
    LET v == LiteralValue(DirectiveText(Trim(src[1])))
    IN  /\ Pass1Done =>
             \A k \in 1..Len(src) :
               (LabelAt(k) /\ LastDefinition(k)) => lblmap[NameAt(k)] = v + WidthBefore(k)
        /\ (write /\ status # "failure") => caddr = v + WidthBefore(pos + 1)
        /\ status = "success" => reported = Len(out)

(***************************************************************************)
(* C7, C10                                                                 *)
(***************************************************************************)
\* The instruction record of the line about to be processed.
Current == Instruction(line, write, caddr, lblmap, directives[base_addr], imap)

\* Operands of an instruction record that have a type (immediate or direct).
TypedOperands(ins) == Cardinality({ i \in 1..2 : ins.optype[i] # 0 })

\* C7: on the second pass an instruction line with a Mapping Table entry
\* emits 1 + k bytes, k its number of operands: the target byte of its key,
\* then operand 1, then operand 2; the program address grows by one per byte;
\* the first pass emits nothing.
C7_OneBytePerOperand ==
  [][ /\ ~write' => out' = <<>>
      /\ (MoreLines /\ write /\ IsInstruction(line) /\ status' = "running") =>
           LET k == TypedOperands(Current)
           IN  /\ out' = out \o <<imap[Current.icode]>> \o SubSeq(Current.ops, 1, k)
               /\ caddr' = caddr + 1 + k ]_vars

\* An operand-field character that is no space, '$', ',' or hex digit.
IsOperandChar(c) == c \in {SP, DOLLAR, COMMA} \/ IsHexDigit(ToUpper(c))
HasInvalidOperandChar(l) ==
  \E i \in 1..Len(OperandField(l)) : ~IsOperandChar(OperandField(l)[i])

\* Line l with the invalid characters of its operand field removed.
StripInvalid(l) ==
  SubSeq(l, 1, AfterMnemonic(l) - 1)
  \o SelectSeq(OperandField(l), IsOperandChar)
  \o SubSeq(l, AfterMnemonic(l) + Len(OperandField(l)), Len(l))

\* C10 (as stated): an instruction line with an invalid character in its
\* operand field aborts the run.
C10_InvalidCharAborts ==
  [][ (MoreLines /\ IsInstruction(line) /\ HasInvalidOperandChar(line)) =>
        status' = "failure" ]_vars

\* C10 (amended): on an instruction line whose mnemonic is no jump/branch
\* mnemonic, a character of the operand field that is no space, '$', ',' or
\* hex digit is not an error: it is skipped, and the line is assembled
\* exactly as it would be with that character removed.
C10_InvalidCharSkipped ==
  [][ (MoreLines /\ IsInstruction(line) /\ ReadMnemonic(line) \notin jmpcodes
       /\ HasInvalidOperandChar(line)) =>
        LET ins == Instruction(StripInvalid(line), write, caddr, lblmap,
                               directives[base_addr], imap)
        IN  IF ins.err # "none" THEN status' = "failure"
            ELSE /\ status' = "running"
                 /\ caddr' = caddr + 1 + ins.numops
                 /\ out' = IF write THEN out \o Encoding(imap, ins) ELSE out ]_vars

\* mov $04, 3G has been written as MOV $04, 3 is: 04 04 03.
C10_Witness ==
  /\ write /\ status = "running" /\ pos >= 1
  /\ Trim(src[pos]) = LineMOVG
  /\ Len(out) >= 3
  /\ SubSeq(out, Len(out) - 2, Len(out)) = <<4, 4, 3>>

(***************************************************************************)
(* C8                                                                      *)
(***************************************************************************)
\* C8: when a hard error is detected on either pass (an unmapped instruction
\* code included) the run ends in failure at that line, the output file is
\* removed, and nothing is processed afterwards.
C8_AbortOnError ==
  /\ [](status = "failure" => (~outfile /\ out = <<>>))
  /\ [][status = "running"]_vars
  /\ [][ (MoreLines /\ IsInstruction(line)
          /\ (Current.err # "none" \/ Current.icode \notin DOMAIN imap)) =>
            (status' = "failure" /\ pos' = pos /\ write' = write) ]_vars

\* The second pass has failed after writing the bytes of an earlier line.
C8_Witness ==
  /\ status = "failure" /\ write /\ pos >= 1
  /\ \E k \in 1..pos : InstructionAt(k)
  /\ ~outfile /\ out = <<>>

(***************************************************************************)
(* C11                                                                     *)
(***************************************************************************)
\* Indices of the commas of an operand field, and of its operand characters
\* ('$' and hex digits).
CommasOf(l) == { i \in 1..Len(OperandField(l)) : OperandField(l)[i] = COMMA }
OperandStarted(l, i) ==
  \E j \in 1..(i-1) :
    OperandField(l)[j] = DOLLAR \/ IsHexDigit(ToUpper(OperandField(l)[j]))

\* A second comma / a comma before any character of operand 1.
SecondComma(l) == Cardinality(CommasOf(l)) >= 2
LeadingComma(l) == \E i \in CommasOf(l) : ~OperandStarted(l, i)

\* C11: an instruction line whose operand list has a second comma, or a comma
\* before any character of operand 1, aborts the run, whatever the Mapping
\* Table holds.
C11_CommaAborts ==
  [][ (MoreLines /\ IsInstruction(line) /\ (SecondComma(line) \/ LeadingComma(line))) =>
        (status' = "failure" /\ out' = <<>>) ]_vars

(***************************************************************************)
(* C12                                                                     *)
(***************************************************************************)
\* C12: a line made of an instruction (ordinary or jump/branch) followed by
\* an inline comment, i.e. a line that is an instruction line once its first
\* '#' and the text after it are removed, is classified as an instruction
\* line, and succeeds or aborts, advances the program address and emits bytes
\* exactly as that shorter line.
C12_CommentIgnored ==
  [][ MoreLines =>
        LET hashes == { k \in 1..Len(line) : line[k] = HASH }
            first  == CHOOSE k \in hashes : \A j \in hashes : k <= j
            bare   == Trim(SubSeq(line, 1, first - 1))
            ins    == Instruction(bare, write, caddr, lblmap, directives[base_addr], imap)
        IN  (hashes # {} /\ IsInstruction(bare)) =>
              /\ IsInstruction(line)
              /\ IF ins.err # "none" THEN status' = "failure"
                 ELSE /\ status' = "running"
                      /\ caddr' = caddr + 1 + ins.numops
                      /\ out' = IF write THEN out \o Encoding(imap, ins) ELSE out ]_vars

(***************************************************************************)
(* C13                                                                     *)
(***************************************************************************)
\* The text between the '@' and the last '=' of a directive line.
DirectiveName(l) == Trim(SubSeq(l, 2, MatchEnd(l, EQUALS) - 1))

\* l is @base_addr=v with v of one or two hex digits.
IsBaseAddr(l) ==
  /\ IsDirective(l) /\ MatchEnd(l, EQUALS) > 0
  /\ DirectiveName(l) = base_addr
  /\ IsHexLiteral(DirectiveText(l))

\* C13: on the first pass a line @base_addr=v, v of one or two hex digits,
\* wherever it stands, stores the value of v as base_addr and adds the value
\* of v to the program address; base_addr is 0 in a program without
\* directive lines.
C13_BaseAddrIsV ==
  /\ [][ (MoreLines /\ ~write /\ IsBaseAddr(line)) =>
            LET v == LiteralValue(DirectiveText(line))
            IN  /\ status' = "running"
                /\ directives'[base_addr] = v
                /\ caddr' = caddr + v ]_vars
  /\ []((\A k \in 1..Len(src) : ~IsDirective(Trim(src[k]))) => directives[base_addr] = 0)

(***************************************************************************)
(* C14                                                                     *)
(***************************************************************************)
\* C14: when a run has aborted, the line number of its diagnostic is the
\* 1-based position in the source of the line that caused the error,
\* whatever lines precede it.
C14_LineNumberIsPosition == status = "failure" => errline = pos + 1

(***************************************************************************)
(* C15                                                                     *)
(***************************************************************************)
\* The program address the first pass had when it took line k: the bytes of
\* the instruction lines before it plus the offsets its directives added.
Pass1Address(k) == WidthBefore(k) + OffsetBefore(k)

\* No instruction line of the source is in error on the second pass (the
\* label table is complete once the first pass is over).
Pass2Completes ==
  \A k \in 1..Len(src) :
    InstructionAt(k) =>
      Instruction(Trim(src[k]), TRUE, 0, lblmap, directives[base_addr], imap).err = "none"

\* C15: in a program that completes both passes, the program address at
\* which the second pass takes a label line or an instruction line (ordinary
\* or jump/branch) is the program address the first pass had at that line,
\* wherever base_addr directives stand and however many there are; so the
\* address recorded for a label is the second-pass address of the next byte
\* emitted.
C15_SameAddressOnBothPasses ==
  (write /\ MoreLines /\ Pass2Completes /\ (IsLabel(line) \/ IsInstruction(line))) =>
    /\ caddr = Pass1Address(pos + 1)
    /\ (IsLabel(line) /\ LastDefinition(pos + 1)) => lblmap[LabelOf(line)] = Byte(caddr)

(***************************************************************************)
(* C1                                                                      *)
(***************************************************************************)
\* C1: once the first pass is over, the address stored for the label of
\* every label line equals the sum, over the lines strictly before it, of
\* the byte widths of the instruction lines (one opcode byte plus one byte
\* per operand the line gives) and of the offsets v of the lines
\* @base_addr=v.  The sum is taken from the text of the lines, not from the
\* assembler's counters.
C1_EveryLabelLine ==
  LET text(j)     == Trim(src[j])
      operands(j) == TypedOperands(Instruction(text(j), FALSE, 0, <<>>, 0, imap))
      width(j)    == IF InstructionAt(j) THEN 1 + operands(j) ELSE 0
      offset(j)   == IF IsBaseAddr(text(j)) THEN LiteralValue(DirectiveText(text(j))) ELSE 0
      address(k)  == SumTo([j \in 1..Len(src) |-> width(j) + offset(j)], k - 1)
  IN  Pass1Done =>
        \A k \in 1..Len(src) : LabelAt(k) => lblmap[NameAt(k)] = address(k)

====
